---- MODULE Spec2Model ----
(***************************************************************************)
(* Model of src/main.py: a Flask service with two routes,                  *)
(* POST /subscribe (subscribe) and GET /users (get_users), over one        *)
(* BigQuery table.  The table is the only shared state; each request is    *)
(* served by a handler whose position and local data are modelled.         *)
(***************************************************************************)
EXTENDS Integers, Sequences, FiniteSets

VARIABLES store, pc, req, resp

vars == <<store, pc, req, resp>>

(* ---------------------------------------------------------------------- *)
(* Bounds of the model                                                     *)
(* ---------------------------------------------------------------------- *)

\* Rows the table may hold: a registration that would pass every check is
\* only taken up while the table, counting inserts in flight, is below it.
MaxRows == 2

\* Request handlers (threads of the HTTP server).
Handlers == {"h1", "h2"}

(* ---------------------------------------------------------------------- *)
(* JSON values of the request body and of the table's columns              *)
(* ---------------------------------------------------------------------- *)

\* A key that is not in the body.
Absent == [t |-> "absent", s |-> "", l |-> <<>>]

\* JSON null / Python None.
Null == [t |-> "null", s |-> "", l |-> <<>>]

Str(x) == [t |-> "str", s |-> x, l |-> <<>>]

List(xs) == [t |-> "list", s |-> "", l |-> xs]

\* Python truth value of a JSON value: None, "" and [] are false.
Truthy(v) ==
    CASE v.t = "str" -> v.s # ""
      [] v.t = "list" -> v.l # <<>>
      [] OTHER -> FALSE

\* `key in data`
HasKey(data, k) == data[k].t # "absent"

\* data.get(key): None when the key is missing.
Get(data, k) == IF HasKey(data, k) THEN data[k] ELSE Null

\* data.get(key, default)
GetDefault(data, k, dflt) == IF HasKey(data, k) THEN data[k] ELSE dflt

(* ---------------------------------------------------------------------- *)
(* Request bodies the clients send                                         *)
(* ---------------------------------------------------------------------- *)

UserIdVals == {Absent, Str("u1"), Str("u2")}

LocationVals == {Absent, Str("NYC")}

MethodVals ==
    {Absent, List(<<>>), List(<<"email", "SMS">>), List(<<"email", "fax">>),
     Str("email")}

EmailVals == {Absent, Str(""), Str("a@b.com")}

PhoneVals == {Absent, Str("555")}

UnitVals == {Absent, Null, Str("Celsius"), Str("Fahrenheit"), Str("Kelvin")}

Requests ==
    [user_id : UserIdVals, location : LocationVals,
     notification_method : MethodVals, email_id : EmailVals,
     phone_number : PhoneVals, preferred_units : UnitVals]

\* The bodies used when handlers interleave: registrations that pass every
\* check, and the same without a contact method.
ConcRequests ==
    [user_id : {Str("u1"), Str("u2")}, location : {Str("NYC")},
     notification_method : {List(<<"email", "SMS">>)},
     email_id : {Absent, Str("a@b.com")},
     phone_number : {Absent}, preferred_units : {Absent, Str("Fahrenheit")}]

NoRequest ==
    [user_id |-> Absent, location |-> Absent, notification_method |-> Absent,
     email_id |-> Absent, phone_number |-> Absent, preferred_units |-> Absent]

(* ---------------------------------------------------------------------- *)
(* Responses                                                               *)
(* ---------------------------------------------------------------------- *)

ErrMissing == "Missing required fields"

ErrDuplicate == "User ID already exists. Please choose a different one."

ErrContact == "Either email_id or phone number is required."

ErrMethod == "Invalid notification method. Choose 'email' or 'SMS'."

ErrUnits == "Invalid preferred_units. Choose 'Celsius' or 'Fahrenheit'."

MsgSubscribed == "User subscribed successfully!"

\* No response yet.  `queried` records whether the handler has run the
\* existence query; `errors` whether insert_rows_json returned errors.
NoResponse ==
    [status |-> 0, body |-> "", users |-> <<>>, queried |-> FALSE,
     errors |-> FALSE]

\* jsonify({"error": e}), 400
Error400(e, q) ==
    [status |-> 400, body |-> e, users |-> <<>>, queried |-> q,
     errors |-> FALSE]

\* All checks passed, nothing returned yet.
Passed ==
    [status |-> 0, body |-> "", users |-> <<>>, queried |-> TRUE,
     errors |-> FALSE]

(* ---------------------------------------------------------------------- *)
(* Store gateway                                                           *)
(* ---------------------------------------------------------------------- *)

\* SELECT COUNT(*) ... WHERE user_id = @user_id
CountByUserId(st, user_id) ==
    Cardinality({i \in 1..Len(st) : st[i].user_id = user_id})

user_exists_mut(st, user_id) == CountByUserId(st, user_id) > 1

user_exists(st, user_id) == CountByUserId(st, user_id) > 0

RowOf_mut(data) ==
    [user_id |-> data.user_id,
     email_id |-> Get(data, "email_id"),
     phone_number |-> Get(data, "phone_number"),
     location |-> data.location,
     notification_method |-> data.notification_method,
     preferred_units |-> GetDefault(data, "preferred_units", Str("Fahrenheit"))]

\* The row save_user_to_bigquery builds from subscribe's locals.
RowOf(data) ==
    [user_id |-> data.user_id,
     email_id |-> Get(data, "email_id"),
     phone_number |-> Get(data, "phone_number"),
     location |-> data.location,
     notification_method |-> data.notification_method,
     preferred_units |-> GetDefault(data, "preferred_units", Str("Celsius"))]

insert_rows_json_mut(st, row, errors) ==
    IF errors \/ CountByUserId(st, row.user_id) > 0 THEN st ELSE Append(st, row)

\* client.insert_rows_json(table, [row]): the list of insertion errors is
\* empty and the row is appended, or it is not empty and the row is not.
insert_rows_json(st, row, errors) == IF errors THEN st ELSE Append(st, row)

\* Orders in which SELECT * may yield the rows of the table.
Orders(n) == {p \in [1..n -> 1..n] : \A i, j \in 1..n : p[i] = p[j] => i = j}

get_users_from_bigquery_mut(st) ==
    IF st = <<>> THEN {<<>>} ELSE {<<st[1]>>}

\* get_users_from_bigquery(): the lists [dict(row) for row in results] the
\* query may return, one per order in which the store yields its rows.
get_users_from_bigquery(st) ==
    {[i \in 1..Len(st) |-> st[p[i]]] : p \in Orders(Len(st))}

(* ---------------------------------------------------------------------- *)
(* The checks of subscribe                                                 *)
(* ---------------------------------------------------------------------- *)

required_fields == <<"user_id", "location", "notification_method">>

valid_methods == {"email", "SMS"}

valid_units == {"Celsius", "Fahrenheit"}

AllRequired_mut(data) ==
    \E i \in 1..Len(required_fields) : HasKey(data, required_fields[i])

\* all(field in data for field in required_fields)
AllRequired(data) ==
    \A i \in 1..Len(required_fields) : HasKey(data, required_fields[i])

ContactMissing_mut(data) ==
    Get(data, "email_id") = Null /\ Get(data, "phone_number") = Null

\* not email_id and not phone_number
ContactMissing(data) ==
    ~Truthy(Get(data, "email_id")) /\ ~Truthy(Get(data, "phone_number"))

MethodInvalid_mut(data) ==
    LET nm == data.notification_method
    IN  \/ nm.t # "list"
        \/ ~(\E i \in 1..Len(nm.l) : nm.l[i] \in valid_methods)

\* not isinstance(notification_method, list)
\*   or not all(method in valid_methods for method in notification_method)
MethodInvalid(data) ==
    LET nm == data.notification_method
    IN  \/ nm.t # "list"
        \/ ~(\A i \in 1..Len(nm.l) : nm.l[i] \in valid_methods)

\* preferred_units not in ["Celsius", "Fahrenheit"]
UnitsInvalid(data) ==
    LET u == GetDefault(data, "preferred_units", Str("Celsius"))
    IN  ~(u.t = "str" /\ u.s \in valid_units)

Validate_mut(data, st) ==
    IF ~AllRequired(data) THEN Error400(ErrMissing, FALSE)
    ELSE IF ContactMissing(data) THEN Error400(ErrContact, TRUE)
    ELSE IF user_exists(st, data.user_id) THEN Error400(ErrDuplicate, TRUE)
    ELSE IF MethodInvalid(data) THEN Error400(ErrMethod, TRUE)
    ELSE IF UnitsInvalid(data) THEN Error400(ErrUnits, TRUE)
    ELSE Passed

\* subscribe up to the call of save_user_to_bigquery: the 400 response of
\* the first check that fails, or Passed.
Validate(data, st) ==
    IF ~AllRequired(data) THEN Error400(ErrMissing, FALSE)
    ELSE IF user_exists(st, data.user_id) THEN Error400(ErrDuplicate, TRUE)
    ELSE IF ContactMissing(data) THEN Error400(ErrContact, TRUE)
    ELSE IF MethodInvalid(data) THEN Error400(ErrMethod, TRUE)
    ELSE IF UnitsInvalid(data) THEN Error400(ErrUnits, TRUE)
    ELSE Passed

SaveResponse_mut(errors) ==
    IF errors
    THEN [status |-> 500, body |-> "insert failed", users |-> <<>>,
          queried |-> TRUE, errors |-> errors]
    ELSE [status |-> 201, body |-> MsgSubscribed, users |-> <<>>,
          queried |-> TRUE, errors |-> errors]

\* jsonify({"message": ...}), 201: returned whatever `errors` is.
SaveResponse(errors) ==
    [status |-> 201, body |-> MsgSubscribed, users |-> <<>>, queried |-> TRUE,
     errors |-> errors]

\* jsonify(users_data): 200
UsersResponse(users) ==
    [status |-> 200, body |-> "", users |-> users, queried |-> FALSE,
     errors |-> FALSE]

(* ---------------------------------------------------------------------- *)
(* State machine                                                           *)
(* ---------------------------------------------------------------------- *)

Init ==
    /\ store = <<>>
    /\ pc = [h \in Handlers |-> "idle"]
    /\ req = [h \in Handlers |-> NoRequest]
    /\ resp = [h \in Handlers |-> NoResponse]

InFlight == {h \in Handlers : pc[h] = "save"}

\* POST /subscribe, lines 20-49: the body is read, the checks run (the
\* existence query reads the table), and a failing check returns its 400.
Subscribe(h, data) ==
    /\ pc[h] = "idle"
    /\ LET r == Validate(data, store)
       IN  /\ r.status = 0 => Len(store) + Cardinality(InFlight) < MaxRows
           /\ resp' = [resp EXCEPT ![h] = r]
           /\ pc' = [pc EXCEPT ![h] = IF r.status = 0 THEN "save" ELSE "respond"]
    /\ req' = [req EXCEPT ![h] = data]
    /\ UNCHANGED store

\* POST /subscribe, lines 51-54: the insert and the 201.
SaveUser(h) ==
    /\ pc[h] = "save"
    /\ \E errors \in BOOLEAN :
          /\ store' = insert_rows_json(store, RowOf(req[h]), errors)
          /\ resp' = [resp EXCEPT ![h] = SaveResponse(errors)]
    /\ pc' = [pc EXCEPT ![h] = "respond"]
    /\ UNCHANGED req

\* GET /users.
GetUsers(h) ==
    /\ pc[h] = "idle"
    /\ \E users \in get_users_from_bigquery(store) :
          resp' = [resp EXCEPT ![h] = UsersResponse(users)]
    /\ pc' = [pc EXCEPT ![h] = "respond"]
    /\ UNCHANGED <<store, req>>

\* The response leaves the handler, which is free for the next request.
Return(h) ==
    /\ pc[h] = "respond"
    /\ pc' = [pc EXCEPT ![h] = "idle"]
    /\ req' = [req EXCEPT ![h] = NoRequest]
    /\ resp' = [resp EXCEPT ![h] = NoResponse]
    /\ UNCHANGED store

\* No other handler is serving a request.
Quiet(h) == \A g \in Handlers \ {h} : pc[g] = "idle"

SubscribeAlone(h) ==
    /\ Quiet(h)
    /\ pc[h] = "idle"
    /\ \E data \in Requests : Subscribe(h, data)

SaveUserAlone(h) == Quiet(h) /\ SaveUser(h)

GetUsersAlone(h) == Quiet(h) /\ GetUsers(h)

ReturnAlone(h) == Quiet(h) /\ Return(h)

\* Requests handled one at a time.
Next ==
    \E h \in Handlers :
        \/ SubscribeAlone(h)
        \/ SaveUserAlone(h)
        \/ GetUsersAlone(h)
        \/ ReturnAlone(h)

Spec == Init /\ [][Next]_vars

SubscribeAny(h) ==
    /\ pc[h] = "idle"
    /\ \E data \in ConcRequests : Subscribe(h, data)

\* Requests handled by the handlers in parallel, interleaved at the calls
\* of the store.
NextConc ==
    \E h \in Handlers :
        \/ SubscribeAny(h)
        \/ SaveUser(h)
        \/ GetUsers(h)
        \/ Return(h)

SpecConc == Init /\ [][NextConc]_vars

(* ---------------------------------------------------------------------- *)
(* Vocabulary of the properties                                            *)
(* ---------------------------------------------------------------------- *)

\* Handler h takes up a POST /subscribe request in this step.
SubscribeStep(h) ==
    pc[h] = "idle" /\ pc'[h] # "idle" /\ resp'[h].status # 200

\* Handler h runs the insert and returns in this step.
SaveStep(h) == pc[h] = "save" /\ pc'[h] = "respond"

\* Handler h serves GET /users in this step.
GetStep(h) == pc[h] = "idle" /\ pc'[h] = "respond" /\ resp'[h].status = 200

\* Handler h holds the response to a POST /subscribe request.
Answered(h) == pc[h] = "respond" /\ resp[h].status # 200

Rows == {store[i] : i \in 1..Len(store)}

\* Some row of the table carries this user_id.
Carried(user_id) == \E i \in 1..Len(store) : store[i].user_id = user_id

\* The body lacks one of the three required keys.
LacksRequired(data) ==
    \/ data.user_id = Absent
    \/ data.location = Absent
    \/ data.notification_method = Absent

\* The value gives nothing to contact the user with: no key, null or "".
Empty(v) == v \in {Absent, Null, Str("")}

\* How often a row occurs in a sequence of rows.
Occurrences(seq, row) == Cardinality({i \in 1..Len(seq) : seq[i] = row})

SameRecords(a, b) ==
    /\ Len(a) = Len(b)
    /\ \A i \in 1..Len(a) : Occurrences(a, a[i]) = Occurrences(b, a[i])

(* ---------------------------------------------------------------------- *)
(* C1                                                                      *)
(* ---------------------------------------------------------------------- *)

NoSharedUserId ==
    \A i, j \in 1..Len(store) : store[i].user_id = store[j].user_id => i = j

\* C1 as stated: every registration whose user_id is carried by a row of
\* the table is answered 400 with the duplicate-user_id error and leaves the
\* table as it was, and no two rows share a user_id.
C1_AsStated ==
    /\ []NoSharedUserId
    /\ [][\A h \in Handlers :
            (SubscribeStep(h) /\ Carried(req'[h].user_id))
            => /\ resp'[h].status = 400
               /\ resp'[h].body = ErrDuplicate
               /\ store' = store]_vars

\* C1 amended: every registration that has the three required keys and
\* whose user_id is carried by a row of the table is answered 400 with the
\* duplicate-user_id error and leaves the table as it was; with requests
\* handled one at a time, no two rows share a user_id.
C1_DuplicateRejected ==
    /\ []NoSharedUserId
    /\ [][\A h \in Handlers :
            (SubscribeStep(h) /\ ~LacksRequired(req'[h])
                /\ Carried(req'[h].user_id))
            => /\ resp'[h].status = 400
               /\ resp'[h].body = ErrDuplicate
               /\ pc'[h] = "respond"
               /\ store' = store]_vars

\* A registration of a stored user_id has been answered, with two users
\* stored.
C1_Witness ==
    \E h \in Handlers :
        /\ Answered(h)
        /\ resp[h].body = ErrDuplicate
        /\ Carried(req[h].user_id)
        /\ Len(store) = 2

(* ---------------------------------------------------------------------- *)
(* C2                                                                      *)
(* ---------------------------------------------------------------------- *)

\* C2: a registration whose body lacks user_id, location or
\* notification_method is answered 400 with the missing-required-fields
\* error and leaves the table as it was, whatever else it holds and whatever
\* the table holds.
C2_MissingFieldsRejected ==
    [][\A h \in Handlers :
         (SubscribeStep(h) /\ LacksRequired(req'[h]))
         => /\ resp'[h].status = 400
            /\ resp'[h].body = ErrMissing
            /\ pc'[h] = "respond"
            /\ store' = store]_vars

\* A body with user_id and location but no notification_method has been
\* answered against a table that holds rows.
C2_Witness ==
    \E h \in Handlers :
        /\ Answered(h)
        /\ resp[h].body = ErrMissing
        /\ req[h].user_id # Absent
        /\ req[h].location # Absent
        /\ req[h].notification_method = Absent
        /\ Len(store) > 0

(* ---------------------------------------------------------------------- *)
(* C3                                                                      *)
(* ---------------------------------------------------------------------- *)

HasContact(row) == ~Empty(row.email_id) \/ ~Empty(row.phone_number)

\* C3: a registration that gives neither email_id nor phone_number is
\* answered 400 and inserts no row, and every stored row has an email_id or
\* a phone_number.
C3_ContactRequired ==
    /\ [](\A row \in Rows : HasContact(row))
    /\ [][\A h \in Handlers :
            (SubscribeStep(h) /\ Empty(req'[h].email_id)
                /\ Empty(req'[h].phone_number))
            => /\ resp'[h].status = 400
               /\ pc'[h] = "respond"
               /\ store' = store]_vars

\* A registration that fails only for its missing contact has been answered.
C3_Witness ==
    \E h \in Handlers :
        /\ Answered(h)
        /\ resp[h].body = ErrContact
        /\ req[h].email_id = Str("")
        /\ req[h].phone_number = Absent

(* ---------------------------------------------------------------------- *)
(* C4                                                                      *)
(* ---------------------------------------------------------------------- *)

\* A list with an element that is neither email nor SMS.
HasForeignMethod(v) ==
    v.t = "list" /\ \E i \in 1..Len(v.l) : v.l[i] \notin {"email", "SMS"}

\* C4: a registration whose notification_method contains a value outside
\* {email, SMS} is answered 400 and inserts no row, and every stored row's
\* notification_method is a list of values from {email, SMS}.
C4_MethodsValid ==
    /\ [](\A row \in Rows :
            /\ row.notification_method.t = "list"
            /\ ~HasForeignMethod(row.notification_method))
    /\ [][\A h \in Handlers :
            (SubscribeStep(h) /\ HasForeignMethod(req'[h].notification_method))
            => /\ resp'[h].status = 400
               /\ pc'[h] = "respond"
               /\ store' = store]_vars

\* A registration with the methods email and fax, right in everything else,
\* has been answered with the invalid-method error.
C4_Witness ==
    \E h \in Handlers :
        /\ Answered(h)
        /\ resp[h].body = ErrMethod
        /\ req[h].notification_method = List(<<"email", "fax">>)

(* ---------------------------------------------------------------------- *)
(* C5                                                                      *)
(* ---------------------------------------------------------------------- *)

\* C5: a registration whose notification_method is the empty list is
\* rejected with 400 and inserts no row, so that every stored row has a
\* notification_method that is not empty.
C5_EmptyMethodRejected ==
    /\ \A h \in Handlers :
          req[h].notification_method = List(<<>>)
          => pc[h] # "save" /\ resp[h].status # 201
    /\ \A row \in Rows : row.notification_method.l # <<>>

(* ---------------------------------------------------------------------- *)
(* C6                                                                      *)
(* ---------------------------------------------------------------------- *)

\* C6: the row written for an accepted registration without preferred_units
\* has preferred_units Celsius, and every stored row has preferred_units
\* Celsius or Fahrenheit.
C6_UnitsDefault ==
    /\ [](\A row \in Rows :
            row.preferred_units \in {Str("Celsius"), Str("Fahrenheit")})
    /\ [][\A h \in Handlers :
            (SaveStep(h) /\ store' # store)
            => /\ Len(store') = Len(store) + 1
               /\ SubSeq(store', 1, Len(store)) = store
               /\ store'[Len(store')].user_id = req[h].user_id
               /\ req[h].preferred_units = Absent
                  => store'[Len(store')].preferred_units = Str("Celsius")
               /\ req[h].preferred_units # Absent
                  => store'[Len(store')].preferred_units = req[h].preferred_units
           ]_vars

\* A registration without preferred_units has been accepted and its row
\* written.
C6_Witness ==
    \E h \in Handlers :
        /\ Answered(h)
        /\ resp[h].status = 201
        /\ ~resp[h].errors
        /\ req[h].preferred_units = Absent
        /\ Len(store) > 0
        /\ store[Len(store)].user_id = req[h].user_id
        /\ store[Len(store)].preferred_units = Str("Celsius")

(* ---------------------------------------------------------------------- *)
(* C7                                                                      *)
(* ---------------------------------------------------------------------- *)

NoContact(data) == Empty(data.email_id) /\ Empty(data.phone_number)

BadMethod(data) ==
    \/ data.notification_method.t # "list"
    \/ HasForeignMethod(data.notification_method)

BadUnits(data) ==
    data.preferred_units \notin {Absent, Str("Celsius"), Str("Fahrenheit")}

\* C7: the checks run in the order required fields, user_id not stored,
\* contact, notification_method, preferred_units; a rejected registration
\* carries the error of the first check it fails, the existence query is
\* issued only when the required fields are there, and a registration goes
\* on to the insert only when it fails none.
C7_CheckOrder ==
    \A h \in Handlers :
        LET d == req[h]
            r == resp[h]
        IN  /\ (Answered(h) /\ r.status = 400) =>
                /\ LacksRequired(d) => r.body = ErrMissing
                /\ (~LacksRequired(d) /\ Carried(d.user_id))
                   => r.body = ErrDuplicate
                /\ (~LacksRequired(d) /\ ~Carried(d.user_id) /\ NoContact(d))
                   => r.body = ErrContact
                /\ (~LacksRequired(d) /\ ~Carried(d.user_id) /\ ~NoContact(d)
                       /\ BadMethod(d))
                   => r.body = ErrMethod
                /\ (~LacksRequired(d) /\ ~Carried(d.user_id) /\ ~NoContact(d)
                       /\ ~BadMethod(d))
                   => r.body = ErrUnits /\ BadUnits(d)
            /\ pc[h] = "save" =>
                /\ ~LacksRequired(d) /\ ~Carried(d.user_id) /\ ~NoContact(d)
                /\ ~BadMethod(d) /\ ~BadUnits(d)
            /\ r.queried <=> (pc[h] # "idle" /\ r.status # 200
                                 /\ ~LacksRequired(d))

\* A registration of a stored user_id that gives no contact either has been
\* answered with the duplicate-user_id error.
C7_Witness ==
    \E h \in Handlers :
        /\ Answered(h)
        /\ resp[h].body = ErrDuplicate
        /\ NoContact(req[h])
        /\ BadMethod(req[h])
        /\ BadUnits(req[h])

(* ---------------------------------------------------------------------- *)
(* C8                                                                      *)
(* ---------------------------------------------------------------------- *)

\* C8: the insert step answers 201 with the success message whether or not
\* the insert returned errors; when it did, no row was written, and the same
\* body would pass every check again.
C8_ErrorsSwallowed ==
    /\ [][\A h \in Handlers :
            SaveStep(h)
            => /\ resp'[h].status = 201
               /\ resp'[h].body = MsgSubscribed
               /\ resp'[h].errors => store' = store]_vars
    /\ [](\A h \in Handlers :
            (Answered(h) /\ resp[h].status = 201 /\ resp[h].errors)
            => /\ ~Carried(req[h].user_id)
               /\ Validate(req[h], store) = Passed)

\* A registration has been answered 201 although its insert returned errors
\* and no row carries its user_id.
C8_Witness ==
    \E h \in Handlers :
        /\ Answered(h)
        /\ resp[h].status = 201
        /\ resp[h].errors
        /\ ~Carried(req[h].user_id)

(* ---------------------------------------------------------------------- *)
(* C9                                                                      *)
(* ---------------------------------------------------------------------- *)

\* Handler h has passed the existence check and every other check.
PassedChecks(h) ==
    \/ pc[h] = "save"
    \/ Answered(h) /\ resp[h].status = 201

\* Handler h has inserted its row.
Inserted(h) == Answered(h) /\ resp[h].status = 201 /\ ~resp[h].errors

\* C9: with handlers interleaved, two registrations of the same user_id can
\* both be past the existence check; each is then answered 201, and once
\* both inserts are done the table holds two rows with that user_id.
C9_RaceDuplicates ==
    /\ [](\A h, g \in Handlers :
            (h # g /\ req[h].user_id = req[g].user_id
                /\ Inserted(h) /\ Inserted(g))
            => CountByUserId(store, req[h].user_id) >= 2)
    /\ [][\A h, g \in Handlers :
            (h # g /\ req[h].user_id = req[g].user_id
                /\ PassedChecks(g) /\ SaveStep(h))
            => /\ resp'[h].status = 201
               /\ ~resp'[h].errors
                  => CountByUserId(store', req[h].user_id)
                        = CountByUserId(store, req[h].user_id) + 1]_vars

\* Both handlers have been answered 201 for the same user_id and the table
\* holds two rows with it.
C9_Witness ==
    \E h, g \in Handlers :
        /\ h # g
        /\ req[h].user_id = req[g].user_id
        /\ Inserted(h)
        /\ Inserted(g)
        /\ ~NoSharedUserId

(* ---------------------------------------------------------------------- *)
(* C10                                                                     *)
(* ---------------------------------------------------------------------- *)

\* C10: GET /users leaves the table as it was and returns its rows, each
\* whole and as often as it is stored, in some order; the table changes only
\* by an insert appending a row, so that two listings with no insert between
\* them hold the same records and an inserted row is in every later listing.
C10_ListingFaithful ==
    /\ [][\A h \in Handlers :
            GetStep(h)
            => /\ store' = store
               /\ SameRecords(resp'[h].users, store)]_vars
    /\ [][store' # store
            => \E h \in Handlers :
                  /\ SaveStep(h)
                  /\ ~resp'[h].errors
                  /\ store' = Append(store, RowOf(req[h]))]_vars

\* A listing of two stored rows has been returned, in the other order.
C10_Witness ==
    \E h \in Handlers :
        /\ pc[h] = "respond"
        /\ resp[h].status = 200
        /\ Len(resp[h].users) = 2
        /\ resp[h].users # store

====
